---- MODULE Spec2Model ----
(***************************************************************************)
(* stair_from_polyline (src/src/elements/stairs.py): a polyline guide and  *)
(* a total rise are turned into an ordered list of tread and landing       *)
(* solids.  One behaviour of the model is one call of the function.        *)
(*                                                                         *)
(* Numbers.  Lengths are integers (millimetres); every quantity the code   *)
(* derives by division (riser_height, -width * 0.5, the elevations) is an  *)
(* exact rational <<n, d>> in lowest terms with d > 0, so floating-point   *)
(* rounding is abstracted to exact arithmetic.  Guide segments are         *)
(* parallel to a coordinate axis (or of length zero), for which            *)
(* DistanceTo and Unitize are exact in integers.                           *)
(***************************************************************************)
EXTENDS Integers, Sequences, FiniteSets, TLC

\* ------------------------------------------------------------------ bounds
MaxFlights == 2
MaxLen == 4
MaxHeight == 7

\* ------------------------------------------------------- program constants
DefaultRiserHeight == 170
DefaultTreadDepth == 270
DefaultWidth == 1200
DefaultTreadThickness == 150
DefaultLandingDepth == 270

StairSide == {"left", "right", "center"}

\* ------------------------------------------------------- exact arithmetic
Abs(n) == IF n < 0 THEN -n ELSE n

Max(a, b) == IF a >= b THEN a ELSE b

RECURSIVE GCD(_, _)
GCD(a, b) == IF b = 0 THEN a ELSE GCD(b, a % b)

\* n / d (d # 0) in lowest terms with a positive denominator
Rat(n, d) ==
    LET g == GCD(Abs(n), Abs(d))
        sgn == IF d < 0 THEN -1 ELSE 1
    IN  <<(sgn * n) \div g, (sgn * d) \div g>>

QInt(n) == <<n, 1>>
QAdd(a, b) == Rat(a[1] * b[2] + b[1] * a[2], a[2] * b[2])
QMul(a, b) == Rat(a[1] * b[1], a[2] * b[2])
QLess(a, b) == a[1] * b[2] < b[1] * a[2]

\* Python's a // b (floor division), b # 0
FloorDiv(a, b) == IF b > 0 THEN a \div b ELSE (-a) \div (-b)

\* Python 3 round(n / d): to the nearest integer, ties to the even one
Round(n, d) ==
    LET q == FloorDiv(n, d)
        r == Abs(n - q * d)
        m == Abs(d)
    IN  IF 2 * r < m THEN q
        ELSE IF 2 * r > m THEN q + 1
        ELSE IF q % 2 = 0 THEN q ELSE q + 1

\* ------------------------------------------------------------- geometry
ZAxis == <<0, 0, 1>>

VSub(p, q) == [k \in 1..3 |-> p[k] - q[k]]

\* Euclidean length of an axis-parallel vector
Norm(v) == Abs(v[1]) + Abs(v[2]) + Abs(v[3])

DistanceTo(p0, p1) == Norm(VSub(p1, p0))

\* Vector3d.Unitize: a zero vector cannot be unitized and stays zero
Unitize(v) == IF Norm(v) = 0 THEN v ELSE [k \in 1..3 |-> v[k] \div Norm(v)]

CrossProduct(a, b) ==
    << a[2] * b[3] - a[3] * b[2],
       a[3] * b[1] - a[1] * b[3],
       a[1] * b[2] - a[2] * b[1] >>

\* vectors with rational components
VQ(p) == [k \in 1..3 |-> QInt(p[k])]
VQAdd(a, b) == [k \in 1..3 |-> QAdd(a[k], b[k])]
VQScale(v, q) == [k \in 1..3 |-> QMul(QInt(v[k]), q)]

_segment_direction(p0, p1) == Unitize(VSub(p1, p0))

_left_vector(d) == Unitize(CrossProduct(ZAxis, d))

\* the right-hand policy with the sign lost
_alignment_offset_right_positive(width, sd) ==
    CASE sd = "center" -> Rat(-width, 2)
      [] sd = "left" -> QInt(0)
      [] sd = "right" -> QInt(width)

_alignment_offset(width, sd) ==
    CASE sd = "center" -> Rat(-width, 2)
      [] sd = "left" -> QInt(0)
      [] sd = "right" -> QInt(-width)

\* ------------------------------------------------------------ exceptions
GuideNotCurve == [type |-> "TypeError", msg |-> "guide must be a Curve"]
GuideNotPolyline == [type |-> "TypeError", msg |-> "guide must be a polyline"]
ZeroDivision == [type |-> "ZeroDivisionError", msg |-> "division by zero"]
NoError == [type |-> "none", msg |-> ""]

\* a polyline of a single point is let through
_coerce_polyline_one_point(curve) ==
    IF ~curve.iscurve THEN [raised |-> TRUE, error |-> GuideNotCurve, pl |-> <<>>]
    ELSE IF ~curve.ok \/ Len(curve.pts) < 1
         THEN [raised |-> TRUE, error |-> GuideNotPolyline, pl |-> <<>>]
         ELSE [raised |-> FALSE, error |-> NoError, pl |-> curve.pts]

\* rs.coercecurve gives no curve, TryGetPolyline fails, or fewer than 2 points
_coerce_polyline(curve) ==
    IF ~curve.iscurve THEN [raised |-> TRUE, error |-> GuideNotCurve, pl |-> <<>>]
    ELSE IF ~curve.ok \/ Len(curve.pts) < 2
         THEN [raised |-> TRUE, error |-> GuideNotPolyline, pl |-> <<>>]
         ELSE [raised |-> FALSE, error |-> NoError, pl |-> curve.pts]

\* ----------------------------------------------------------- riser plan
\* the quotient truncated instead of rounded
RiserCountTruncated(total_height, nominal) == Max(1, FloorDiv(total_height, nominal))

\* line 76: max(1, int(round(total_height_mm / riser_height_mm)))
RiserCount(total_height, nominal) == Max(1, Round(total_height, nominal))

\* the quotient rounded up instead of truncated
StepsHereRoundedUp(length, tread_depth) == FloorDiv(length + tread_depth - 1, tread_depth)

\* line 96: steps_here = int(run_length // tread_depth_mm)
StepsHere(length, tread_depth) == FloorDiv(length, tread_depth)

\* -------------------------------------------------------- geometry kernel
\* A frame with a zero axis, or a zero extent or height, gives a collapsed
\* profile; Extrusion.Create then may or may not return a solid.
Degenerate(xdir, ydir, dx, dy, h) ==
    \/ Norm(xdir) = 0
    \/ Norm(ydir) = 0
    \/ dx = 0
    \/ dy = 0
    \/ h = 0

\* truth values `ext` can take at `if ext:`
ExtrusionCreate(xdir, ydir, dx, dy, h) ==
    IF Degenerate(xdir, ydir, dx, dy, h) THEN {TRUE, FALSE} ELSE {TRUE}

\* ----------------------------------------------------------------- inputs
Dirs == {<<1, 0, 0>>, <<0, 1, 0>>, <<0, 0, 1>>}

\* segment lengths: zero, shorter than a small tread, one small tread, and
\* the longest
Lengths == {0, 1, 2, MaxLen}

\* a segment is a displacement: a direction times a length
Segments == {[k \in 1..3 |-> d[k] * n] : d \in Dirs, n \in Lengths}

RECURSIVE Waypoints(_, _)
Waypoints(start, segs) ==
    IF segs = <<>> THEN <<start>>
    ELSE <<start>> \o Waypoints([k \in 1..3 |-> start[k] + Head(segs)[k]], Tail(segs))

Polylines ==
    {Waypoints(<<0, 0, 0>>, segs) :
        segs \in UNION {[1..n -> Segments] : n \in 0..MaxFlights}}

Guides ==
    {[iscurve |-> FALSE, ok |-> FALSE, pts |-> <<>>],
     [iscurve |-> TRUE, ok |-> FALSE, pts |-> <<>>]}
    \cup {[iscurve |-> TRUE, ok |-> TRUE, pts |-> p] : p \in Polylines}

Straight(n) == [iscurve |-> TRUE, ok |-> TRUE, pts |-> <<<<0, 0, 0>>, <<n, 0, 0>>>>]

Kinked(a, b) ==
    [iscurve |-> TRUE, ok |-> TRUE, pts |-> <<<<0, 0, 0>>, <<a, 0, 0>>, <<a, b, 0>>>>]

Args(g, th, rh, td, w, sd, tt, ld) ==
    [guide |-> g, total_height_mm |-> th, riser_height_mm |-> rh,
     tread_depth_mm |-> td, width_mm |-> w, side |-> sd,
     tread_thickness_mm |-> tt, landing_depth_mm |-> ld]

\* small dimensions: nominal riser 2, tread depth 2, width 3, thickness 1,
\* landing depth 1
SmallCall(g, th, sd) == Args(g, th, 2, 2, 3, sd, 1, 1)

\* a call with the default dimensions
DefaultCall(g, th) ==
    Args(g, th, DefaultRiserHeight, DefaultTreadDepth, DefaultWidth, "center",
         DefaultTreadThickness, DefaultLandingDepth)

\* the calls of the worked scenarios
ScenarioCalls ==
    {DefaultCall(g, th) : g \in {Straight(5000), Kinked(2000, 1500)}, th \in {3000, 170}}

\* a guide whose first flight is shorter than one default tread
JogCalls == {DefaultCall(Kinked(100, 1500), 3000)}

\* calls whose dimensions may be zero or negative
AnyDimensionCalls ==
    {Args(g, th, rh, td, w, "center", tt, ld) :
        g \in {Straight(4), Kinked(1, 4), Kinked(4, 2),
               [iscurve |-> FALSE, ok |-> FALSE, pts |-> <<>>],
               [iscurve |-> TRUE, ok |-> TRUE, pts |-> <<<<0, 0, 0>>>>]},
        th \in {-4, 0, 4}, rh \in {-2, 0, 2}, td \in {-2, 0, 2},
        w \in {-3, 0, 3}, tt \in {-1, 0, 1}, ld \in {-1, 0, 1}}

\* ------------------------------------------------------------------ state
VARIABLES
    guide, total_height_mm, riser_height_mm, tread_depth_mm, width_mm, side,
    tread_thickness_mm, landing_depth_mm,     \* the arguments of the call
    pl,                                       \* the coerced polyline
    riser_count, riser_height, tread_count,   \* the riser plan
    current_step, current_z,                  \* the walk state
    breps,                                    \* the output list
    i, s,                                     \* loop indices (0-based)
    dir, left, run_length, steps_here, base_origin,   \* the flight's frame
    pc, error

args == <<guide, total_height_mm, riser_height_mm, tread_depth_mm, width_mm, side,
          tread_thickness_mm, landing_depth_mm>>
plan == <<riser_count, riser_height, tread_count>>
frame == <<dir, left, run_length, steps_here, base_origin>>
vars == <<args, pl, plan, current_step, current_z, breps, i, s, frame, pc, error>>

Called(c) ==
    /\ guide = c.guide
    /\ total_height_mm = c.total_height_mm
    /\ riser_height_mm = c.riser_height_mm
    /\ tread_depth_mm = c.tread_depth_mm
    /\ width_mm = c.width_mm
    /\ side = c.side
    /\ tread_thickness_mm = c.tread_thickness_mm
    /\ landing_depth_mm = c.landing_depth_mm
    /\ pl = <<>>
    /\ riser_count = 0
    /\ riser_height = QInt(0)
    /\ tread_count = 0
    /\ current_step = 0
    /\ current_z = QInt(0)
    /\ breps = <<>>
    /\ i = 0
    /\ s = 0
    /\ dir = <<0, 0, 0>>
    /\ left = <<0, 0, 0>>
    /\ run_length = 0
    /\ steps_here = 0
    /\ base_origin = VQ(<<0, 0, 0>>)
    /\ pc = "coerce"
    /\ error = NoError

\* the calls with default dimensions; every small guide with every rise
\* 1..MaxHeight, centred; every small guide with the highest rise, aligned
\* left or right
Init ==
    \/ \E c \in JogCalls : Called(c)
    \/ \E c \in ScenarioCalls : Called(c)
    \/ \E g \in Guides, th \in 1..MaxHeight : Called(SmallCall(g, th, "center"))
    \/ \E g \in Guides, sd \in {"left", "right"} : Called(SmallCall(g, MaxHeight, sd))

InitAnyDimension == \E c \in AnyDimensionCalls : Called(c)

Raise(e) ==
    /\ pc' = "raised"
    /\ error' = e

\* line 71: pl = _coerce_polyline(guide)
Coerce ==
    /\ pc = "coerce"
    /\ LET r == _coerce_polyline(guide)
       IN  IF r.raised
           THEN /\ Raise(r.error)
                /\ UNCHANGED pl
           ELSE /\ pl' = r.pl
                /\ pc' = "plan"
                /\ UNCHANGED error
    /\ UNCHANGED <<args, plan, current_step, current_z, breps, i, s, frame>>

\* lines 76-83: the riser plan and the initial walk state
Plan ==
    /\ pc = "plan"
    /\ IF riser_height_mm = 0
       THEN /\ Raise(ZeroDivision)
            /\ UNCHANGED <<plan, current_step, current_z, breps>>
       ELSE /\ riser_count' = RiserCount(total_height_mm, riser_height_mm)
            /\ riser_height' = Rat(total_height_mm, riser_count')
            /\ tread_count' = riser_count' - 1
            /\ current_step' = 0
            /\ current_z' = QInt(0)
            /\ breps' = <<>>
            /\ pc' = "flight"
            /\ UNCHANGED error
    /\ UNCHANGED <<args, pl, i, s, frame>>

\* lines 88-99: the frame of flight i
FlightStart ==
    /\ pc = "flight"
    /\ i < Len(pl) - 1
    /\ LET p0 == pl[i + 1]
           p1 == pl[i + 2]
       IN  /\ dir' = _segment_direction(p0, p1)
           /\ left' = _left_vector(dir')
           /\ run_length' = DistanceTo(p0, p1)
           /\ IF tread_depth_mm = 0
              THEN /\ Raise(ZeroDivision)
                   /\ UNCHANGED <<steps_here, base_origin, s>>
              ELSE /\ steps_here' = StepsHere(run_length', tread_depth_mm)
                   /\ base_origin' =
                          VQAdd(VQ(p0), VQScale(left', _alignment_offset(width_mm, side)))
                   /\ s' = 0
                   /\ pc' = "tread"
                   /\ UNCHANGED error
    /\ UNCHANGED <<args, pl, plan, current_step, current_z, breps, i>>

\* The Brep appended to the output: the rectangle's plane and extents and the
\* extrusion height, tagged with the block that built it (kind), the flight
\* and position it was built for (flight, s) and the elevation used (z).
Solid(kind, origin, dx, n) ==
    [kind |-> kind, origin |-> origin, xdir |-> dir, ydir |-> left,
     dx |-> dx, dy |-> width_mm, h |-> tread_thickness_mm,
     flight |-> i, s |-> n, z |-> current_z]

\* lines 104-125: one tread
TreadEmit ==
    /\ pc = "tread"
    /\ s < steps_here
    /\ current_step < tread_count
    /\ LET origin == VQAdd(VQAdd(base_origin, VQ([k \in 1..3 |-> dir[k] * (s * tread_depth_mm)])),
                           VQScale(ZAxis, current_z))
       IN  \E ext \in ExtrusionCreate(dir, left, tread_depth_mm, width_mm, tread_thickness_mm) :
               breps' = IF ext THEN Append(breps, Solid("step", origin, tread_depth_mm, s))
                        ELSE breps
    /\ current_step' = current_step + 1
    /\ current_z' = QAdd(current_z, riser_height)
    /\ s' = s + 1
    /\ UNCHANGED <<args, pl, plan, i, frame, pc, error>>

\* lines 105-106: the tread budget is used up
TreadBreak ==
    /\ pc = "tread"
    /\ s < steps_here
    /\ current_step >= tread_count
    /\ pc' = "landing"
    /\ UNCHANGED <<args, pl, plan, current_step, current_z, breps, i, s, frame, error>>

\* line 104: range(steps_here) is exhausted
TreadsDone ==
    /\ pc = "tread"
    /\ s >= steps_here
    /\ pc' = "landing"
    /\ UNCHANGED <<args, pl, plan, current_step, current_z, breps, i, s, frame, error>>

\* the landing test without the last-flight exclusion
LandingConditionEveryFlight == current_step < tread_count

\* the landing test without the budget
LandingConditionAnyBudget == i < Len(pl) - 2

\* line 130
LandingCondition == i < Len(pl) - 2 /\ current_step < tread_count

\* lines 130-147: the landing at the kink
LandingEmit ==
    /\ pc = "landing"
    /\ LandingCondition
    /\ LET landing_origin ==
               VQAdd(VQAdd(base_origin,
                           VQ([k \in 1..3 |-> dir[k] * (steps_here * tread_depth_mm)])),
                     VQScale(ZAxis, current_z))
       IN  \E ext \in ExtrusionCreate(dir, left, landing_depth_mm, width_mm, tread_thickness_mm) :
               breps' = IF ext THEN Append(breps, Solid("landing", landing_origin, landing_depth_mm, steps_here))
                        ELSE breps
    /\ i' = i + 1
    /\ pc' = "flight"
    /\ UNCHANGED <<args, pl, plan, current_step, current_z, s, frame, error>>

LandingSkip ==
    /\ pc = "landing"
    /\ ~LandingCondition
    /\ i' = i + 1
    /\ pc' = "flight"
    /\ UNCHANGED <<args, pl, plan, current_step, current_z, breps, s, frame, error>>

\* line 149: return breps
Return ==
    /\ pc = "flight"
    /\ i >= Len(pl) - 1
    /\ pc' = "done"
    /\ UNCHANGED <<args, pl, plan, current_step, current_z, breps, i, s, frame, error>>

Next ==
    \/ Coerce
    \/ Plan
    \/ FlightStart
    \/ TreadEmit
    \/ TreadBreak
    \/ TreadsDone
    \/ LandingEmit
    \/ LandingSkip
    \/ Return

Spec == Init /\ [][Next]_vars

SpecAnyDimension == InitAnyDimension /\ [][Next]_vars

\* ------------------------------------------------------------ properties
Steps == SelectSeq(breps, LAMBDA b : b.kind = "step")

Landings == SelectSeq(breps, LAMBDA b : b.kind = "landing")

GuideValid == guide.iscurve /\ guide.ok /\ Len(guide.pts) >= 2

PositiveDimensions ==
    /\ total_height_mm > 0
    /\ riser_height_mm > 0
    /\ tread_depth_mm > 0
    /\ width_mm > 0
    /\ tread_thickness_mm > 0
    /\ landing_depth_mm > 0

Walking == pc \in {"flight", "tread", "landing"}

\* floor(segment_length / tread_depth) of flight k (0-based) of the guide
FlightCapacity(k) == DistanceTo(guide.pts[k + 1], guide.pts[k + 2]) \div tread_depth_mm

RECURSIVE SumCapacity(_)
SumCapacity(n) == IF n = 0 THEN 0 ELSE SumCapacity(n - 1) + FlightCapacity(n - 1)

\* the sum over all flights of floor(segment_length / tread_depth)
PathCapacity == SumCapacity(Len(guide.pts) - 1)

\* C1: for a valid path and positive parameters the walk emits at most
\* tread_count StepVolumes, exactly tread_count of them when the flights'
\* combined capacity is at least tread_count, and otherwise returns normally
\* with fewer than tread_count.
C1_TreadBudget ==
    (GuideValid /\ PositiveDimensions) =>
        /\ pc # "raised"
        /\ Len(Steps) <= tread_count
        /\ pc = "done" =>
              /\ PathCapacity >= tread_count => Len(Steps) = tread_count
              /\ PathCapacity < tread_count => Len(Steps) < tread_count

C3_LandingIffKinkAndBudget ==
    /\ [][pc = "landing" =>
            /\ Len(Steps') = Len(Steps)
            /\ IF i < Len(pl) - 2 /\ current_step < tread_count
               THEN Len(Landings') = Len(Landings) + 1
               ELSE Len(Landings') = Len(Landings)]_vars
    /\ [](pc # "landing" => Len(Landings) <= Max(0, i))
    /\ [](GuideValid => Len(Landings) <= Len(guide.pts) - 2)

\* C4 as stated: with a valid guide and positive parameters the walk never
\* raises, and a flight of length zero or with floor(length / tread_depth) = 0
\* adds no volume of any kind to the output.
C4_ShortFlightAddsNothing ==
    (GuideValid /\ PositiveDimensions) =>
        /\ pc # "raised"
        /\ \A k \in 1..Len(breps) : FlightCapacity(breps[k].flight) > 0

\* C4 as amended: with a valid guide and positive parameters the walk never
\* raises and visits every flight; a flight of length zero or with
\* floor(length / tread_depth) = 0 adds no tread to the output, and the only
\* volume it can add is its landing, when it is not the last flight and
\* tread budget remains.
C4_ShortFlightAddsNoTread ==
    (GuideValid /\ PositiveDimensions) =>
        /\ pc # "raised"
        /\ pc = "done" => i = Len(guide.pts) - 1
        /\ \A k \in 1..Len(breps) :
              FlightCapacity(breps[k].flight) = 0 =>
                  /\ breps[k].kind = "landing"
                  /\ breps[k].flight < Len(guide.pts) - 2
                  /\ QLess(breps[k].z, QMul(QInt(tread_count), riser_height))

\* a short first flight has left its landing and a later flight its treads
C4_Witness ==
    /\ pc = "done"
    /\ Len(breps) >= 2
    /\ breps[1].kind = "landing"
    /\ breps[1].flight = 0
    /\ DistanceTo(guide.pts[1], guide.pts[2]) = 1
    /\ breps[2].kind = "step"
    /\ breps[2].flight = 1

InvalidGuideError == GuideNotCurve

NonPolylineGuideError == GuideNotPolyline

C6_NonPositiveRejected ==
    (GuideValid /\ ~PositiveDimensions) =>
        /\ pc # "done"
        /\ pc = "raised" => error.type = "InvalidParameterError"

Planned == pc \in {"flight", "tread", "landing", "done"}

\* C7: for positive total_height and nominal riser_height, riser_count is
\* total_height / nominal rounded to a nearest integer and at least 1,
\* riser_height = total_height / riser_count, tread_count = riser_count - 1;
\* 3000 over 170 gives 18 risers and 17 treads, 170 over 170 gives 1 and 0.
C7_RiserPlan ==
    (Planned /\ total_height_mm > 0 /\ riser_height_mm > 0) =>
        /\ riser_count >= 1
        /\ tread_count >= 0
        /\ tread_count = riser_count - 1
        /\ IF riser_count = 1
           THEN 2 * total_height_mm <= 3 * riser_height_mm
           ELSE 2 * Abs(total_height_mm - riser_count * riser_height_mm) <= riser_height_mm
        /\ QMul(QInt(riser_count), riser_height) = QInt(total_height_mm)
        /\ (total_height_mm = 3000 /\ riser_height_mm = 170) =>
               (riser_count = 18 /\ tread_count = 17)
        /\ (total_height_mm = 170 /\ riser_height_mm = 170) =>
               (riser_count = 1 /\ tread_count = 0)

\* the call with a rise of 3000 has been planned and walked
C7_Witness ==
    /\ pc = "done"
    /\ total_height_mm = 3000
    /\ riser_height_mm = 170
    /\ riser_count = 18
    /\ riser_height = <<500, 3>>

\* the offset the three policies prescribe
PolicyOffset ==
    IF side = "center" THEN Rat(-width_mm, 2)
    ELSE IF side = "left" THEN QInt(0)
    ELSE QInt(-width_mm)

\* where a volume of flight b.flight at position b.s and elevation b.z
\* belongs: the segment start, moved by the offset along left, by
\* s * tread_depth along forward and by the elevation along world-up
PlacedOrigin(b) ==
    LET p0 == guide.pts[b.flight + 1]
        along == b.s * tread_depth_mm
    IN  [k \in 1..3 |->
            Rat((p0[k] + b.xdir[k] * along) * PolicyOffset[2] * b.z[2]
                    + b.ydir[k] * PolicyOffset[1] * b.z[2]
                    + ZAxis[k] * b.z[1] * PolicyOffset[2],
                PolicyOffset[2] * b.z[2])]

C9_BudgetIsPermanentStop ==
    /\ [][(Walking /\ current_step >= tread_count) =>
            /\ breps' = breps
            /\ current_step' >= tread_count']_vars
    /\ []((Planned /\ tread_count = 0) => breps = <<>>)

\* the budget is used up at a kink with a flight still to come
C9_Witness ==
    /\ pc = "landing"
    /\ tread_count > 0
    /\ current_step >= tread_count
    /\ i < Len(pl) - 2
    /\ breps # <<>>

\* C10: (current_step, current_elevation) starts at (0, 0); a step of the
\* walk that adds a tread to the output adds 1 and riser_height, every
\* other step leaves both unchanged; so current_step <= tread_count and
\* current_elevation = riser_height * (treads in the output).
C10_WalkStateFollowsTreads ==
    /\ [][Planned =>
            IF Len(Steps') = Len(Steps) + 1
            THEN /\ current_step' = current_step + 1
                 /\ current_z' = QAdd(current_z, riser_height)
            ELSE /\ current_step' = current_step
                 /\ current_z' = current_z]_vars
    /\ []((pc = "flight" /\ i = 0) => (current_step = 0 /\ current_z = QInt(0)))
    /\ [](Planned =>
            /\ current_step <= tread_count
            /\ current_z = QMul(riser_height, QInt(Len(Steps))))

\* the kinds of the volumes in the output, in order
Kinds == [k \in 1..Len(breps) |-> breps[k].kind]

\* n treads in a row
Treads(n) == [k \in 1..n |-> "step"]

\* scenario C: flights of 2000 and 1500, default dimensions, a rise of 3000
ScenarioC ==
    /\ guide = Kinked(2000, 1500)
    /\ total_height_mm = 3000
    /\ riser_height_mm = DefaultRiserHeight
    /\ tread_depth_mm = DefaultTreadDepth

\* C11: the output is in traversal order: volumes of an earlier flight come
\* before those of a later one, and within a flight the treads come in
\* increasing s and before the flight's single landing; scenario C returns
\* exactly 7 treads, one landing, 5 treads and no trailing landing.
C11_OutputInTraversalOrder ==
    /\ \A j, k \in 1..Len(breps) :
           j < k =>
               /\ breps[j].flight <= breps[k].flight
               /\ breps[j].flight = breps[k].flight =>
                      /\ breps[j].kind = "step"
                      /\ breps[k].kind = "step" => breps[j].s < breps[k].s
    /\ (pc = "done" /\ ScenarioC) =>
           /\ tread_count = 17
           /\ Kinds = Treads(7) \o <<"landing">> \o Treads(5)
           /\ \A k \in 1..7 : breps[k].flight = 0 /\ breps[k].s = k - 1
           /\ breps[8].flight = 0
           /\ \A k \in 9..13 : breps[k].flight = 1 /\ breps[k].s = k - 9

\* scenario C has returned its 13 volumes
C11_Witness ==
    /\ pc = "done"
    /\ ScenarioC
    /\ Len(breps) = 13
    /\ breps[8].kind = "landing"
    /\ breps[13].kind = "step"

\* C12: the frame of every flight is total: for every pair of waypoints,
\* coincident and vertically stacked ones included, the frame used to place
\* treads and landings has a unit forward and a unit, horizontal left.
C12_FrameIsTotal ==
    pc \in {"tread", "landing"} =>
        /\ Norm(dir) = 1
        /\ Norm(left) = 1
        /\ left[3] = 0
        /\ left[1] * dir[1] + left[2] * dir[2] + left[3] * dir[3] = 0

====
